---- MODULE Spec2Model ----
(***************************************************************************)
(* JKL shuttle trainer: the GameEngine class (tape model, transport, JKL   *)
(* input state machine, extraction and validation, scoring, mood, audio    *)
(* gain) together with the event wiring of GameCanvas and App.             *)
(*                                                                         *)
(* Units.  The engine computes with JavaScript numbers.  Here              *)
(*   - segment x/width, marks and clip widths are whole pixels (the code   *)
(*     only ever stores integers there: Math.round(..) * FRAME_PIXELS);    *)
(*   - conveyorOffset is counted in 1/Scale pixel;                         *)
(*   - currentSpeed is counted in 1/SpeedDen (0.2 is 1, 1 is 5, 32 is 160);*)
(*   - dt and characterMoodTimer are counted in 1/Scale nominal frame:     *)
(*     dt = ms / 16.666 = ms * 500 / 8333;                                 *)
(*   - times (performance.now(), the rAF timestamp) are whole ms.          *)
(* With these units every step of update() is exact integer arithmetic.    *)
(***************************************************************************)
EXTENDS Integers, Sequences, FiniteSets, TLC

(* ---------------- program constants ---------------- *)
CANVAS_WIDTH == 800
FRAME_PIXELS == 6
SEGMENT_MIN_WIDTH == 100
SEGMENT_MAX_WIDTH == 300
MAX_SPEED == 32
WIN_PIXELS == 1200
TAP_MS == 200
ALLOWED_SILENCE_FRAMES == 10
Scale == 8333
SpeedDen == 5
DtPerMs == 500

(* ---------------- bounds of the model ---------------- *)
TapeLen == 9
TickMs == 100
MaxTicks == 2
MaxEvents == 6
MaxPrior == 3
MarkWindow == 3
MaxPenalty == 2
MaxPresses == 6

\* null (markIn, markOut) and undefined (inputTimestamps, inputStartOffsets)
\* are values no mark (a multiple of FRAME_PIXELS) and no time (>= 0) takes
NULL == -1
UNDEF == -1

RED == "RED"
BLUE == "BLUE"
AVAILABLE_COLORS == {"RED", "BLUE", "GREEN", "YELLOW", "PURPLE", "ORANGE"}
\* the colours the model draws for segments, and for the target of a run
DrawnColors == {RED, BLUE}
TargetDraws == {RED}
GameModes == {"STANDARD", "CAT_MODE"}
Keys == {"j", "k", "l", "i", "o", "."}

VARIABLES
  gameState,
  sourceSegments, sequenceClips, conveyorOffset, markIn, markOut,
  currentSpeed, lastTime, startTime,
  isHoldingK, isHoldingJ, isHoldingL,
  inputTimestamps, inputStartOffsets,
  targetColor, gameMode, penaltyCount,
  characterMood, characterMoodTimer,
  isAudioInitialized, gainTarget,
  now, callbacks, events

vars == <<gameState, sourceSegments, sequenceClips, conveyorOffset, markIn,
          markOut, currentSpeed, lastTime, startTime, isHoldingK, isHoldingJ,
          isHoldingL, inputTimestamps, inputStartOffsets, targetColor,
          gameMode, penaltyCount, characterMood, characterMoodTimer,
          isAudioInitialized, gainTarget, now, callbacks, events>>

(* ---------------- arithmetic helpers ---------------- *)
\* Math.round(n / d) for d > 0: halves round towards +Infinity.
Round(n, d) == (2 * n + d) \div (2 * d)

Min(a, b) == IF a <= b THEN a ELSE b
Max(a, b) == IF a >= b THEN a ELSE b
Abs(a) == IF a < 0 THEN -a ELSE a

RECURSIVE SumWidths(_)
SumWidths(s) == IF s = <<>> THEN 0 ELSE Head(s).width + SumWidths(Tail(s))

(* ---------------- tape model ---------------- *)
\* One iteration of the loop of generateSourceTape: rawWidth is the value of
\* Math.random() * (SEGMENT_MAX_WIDTH - SEGMENT_MIN_WIDTH) + SEGMENT_MIN_WIDTH
\* (a whole number of pixels here), color the draw the do-while loop accepts.
\* The first definition takes the width as drawn, without rounding it to the
\* frame grid; the second is the width the code computes.
SegmentWidthRaw(rawWidth) == rawWidth

SegmentWidth(rawWidth) == Round(rawWidth, FRAME_PIXELS) * FRAME_PIXELS

\* The segments pushed by iterations lo..hi of the loop, currentX being its
\* value when iteration lo begins.  The range is split in two so that the
\* evaluation of a long tape stays shallow; the second half starts at the
\* value of currentX the first half leaves.
RECURSIVE GenerateFrom(_, _, _, _, _)
GenerateFrom(lo, hi, currentX, raws, cols) ==
  IF lo > hi THEN <<>>
  ELSE IF lo = hi
  THEN <<[id |-> lo - 1, x |-> currentX, width |-> SegmentWidth(raws[lo]),
          color |-> cols[lo]]>>
  ELSE LET mid == (lo + hi) \div 2
           head == GenerateFrom(lo, mid, currentX, raws, cols)
           last == head[Len(head)]
       IN  head \o GenerateFrom(mid + 1, hi, last.x + last.width, raws, cols)

generateSourceTape(raws, cols) == GenerateFrom(1, Len(raws), 0, raws, cols)

\* The draws of Math.random() the model considers: every segment of a tape
\* draws the same raw width, colours come from DrawnColors and a draw
\* equal to the predecessor's colour is rejected by the do-while loop.
RawWidths == {100, 113, 299}
RawWidthDraws == {[i \in 1..TapeLen |-> w] : w \in RawWidths}

ColorDraws ==
  {cs \in [1..TapeLen -> DrawnColors \cap AVAILABLE_COLORS] :
     \A i \in 2..TapeLen : cs[i] # cs[i - 1]}

GeneratedTapes ==
  {generateSourceTape(raws, cols) : raws \in RawWidthDraws, cols \in ColorDraws}

\* the tapes startGame draws in Spec: the narrowest segments only
StartTapes ==
  {generateSourceTape([i \in 1..TapeLen |-> SEGMENT_MIN_WIDTH], cols) :
     cols \in ColorDraws}

(* ---------------- transport ---------------- *)
HalfWidth == (CANVAS_WIDTH \div 2) * Scale
FrameUnits == FRAME_PIXELS * Scale

\* getTapeXAtPlayhead, in 1/Scale pixel
getTapeXAtPlayhead(offset) == HalfWidth - offset

\* a snap that takes the frame at or below the position instead of the nearest
\* a snap that rounds to the nearest pixel instead of the nearest frame
SnapPxToPixel(tapeX) == Round(tapeX, Scale)

SnapPxFloor(tapeX) == (tapeX \div FrameUnits) * FRAME_PIXELS

\* Math.round(tapeX / FRAME_PIXELS) * FRAME_PIXELS, in whole pixels
SnapPx(tapeX) == Round(tapeX, FrameUnits) * FRAME_PIXELS

\* snapToFrame: the new conveyorOffset
snapToFrame(offset) == HalfWidth - SnapPx(getTapeXAtPlayhead(offset)) * Scale

(* ---------------- extraction ---------------- *)
affectedSegments(segs, start, end) ==
  SelectSeq(segs, LAMBDA s : s.x < end /\ s.x + s.width > start)

\* CAT_MODE branch of performExtract.  The 0.1 px tolerance is compared in
\* tenths of a pixel.
CatSuccess(segs, start, end, target) ==
  LET aff == affectedSegments(segs, start, end)
      hits == {i \in 1..Len(aff) : aff[i].color = target}
  IN  IF hits = {} THEN FALSE
      ELSE LET targetMeow == aff[CHOOSE i \in hits : \A j \in hits : i <= j]
               caughtStart == 10 * start <= 10 * targetMeow.x + 1
               caughtEnd == 10 * end >= 10 * (targetMeow.x + targetMeow.width) - 1
               silenceBefore == Max(0, targetMeow.x - start)
               silenceAfter == Max(0, end - (targetMeow.x + targetMeow.width))
               allowed == ALLOWED_SILENCE_FRAMES * FRAME_PIXELS
           IN  IF caughtStart /\ caughtEnd
               THEN ~(silenceBefore > allowed \/ silenceAfter > allowed)
               ELSE FALSE

RECURSIVE CorrectColorLength(_, _, _, _)
CorrectColorLength(aff, start, end, target) ==
  IF aff = <<>> THEN 0
  ELSE LET seg == Head(aff)
           segStart == Max(start, seg.x)
           segEnd == Min(end, seg.x + seg.width)
           len == segEnd - segStart
       IN  (IF seg.color = target THEN len ELSE 0)
           + CorrectColorLength(Tail(aff), start, end, target)

\* STANDARD branch: accuracy = correctColorLength / duration >= 0.95
StandardSuccess(segs, start, end, target) ==
  LET aff == affectedSegments(segs, start, end)
  IN  100 * CorrectColorLength(aff, start, end, target) >= 95 * (end - start)

ExtractSuccess(segs, start, end, target, mode) ==
  IF mode = "CAT_MODE" THEN CatSuccess(segs, start, end, target)
  ELSE StandardSuccess(segs, start, end, target)

\* Ripple delete: the two forEach passes that build newSegments.
RECURSIVE RippleLeft(_, _)
RippleLeft(segs, start) ==
  IF segs = <<>> THEN <<>>
  ELSE LET seg == Head(segs)
       IN  (IF seg.x + seg.width <= start THEN <<seg>>
            ELSE IF seg.x < start THEN <<[seg EXCEPT !.width = start - seg.x]>>
            ELSE <<>>)
           \o RippleLeft(Tail(segs), start)

RECURSIVE RippleRight(_, _, _)
RippleRight(segs, start, end) ==
  IF segs = <<>> THEN <<>>
  ELSE LET seg == Head(segs)
           duration == end - start
       IN  (IF seg.x >= end THEN <<[seg EXCEPT !.x = seg.x - duration]>>
            ELSE IF seg.x + seg.width > end
                 THEN <<[seg EXCEPT !.x = end - duration,
                                    !.width = (seg.x + seg.width) - end]>>
            ELSE <<>>)
           \o RippleRight(Tail(segs), start, end)

\* a ripple delete that leaves the segments after the range where they were
RippleDeleteNoShift(segs, start, end) ==
  RippleLeft(segs, start) \o RippleRight(segs, end, end)

RippleDelete(segs, start, end) ==
  RippleLeft(segs, start) \o RippleRight(segs, start, end)

\* a final score without the clamp at 0
calculateFinalScoreUnclamped(nowMs, startMs, penalties) ==
  (1000000 - (nowMs - startMs) - 5000 * penalties) \div 100

\* calculateFinalScore: 10000 - seconds * 10 - penalties * 50, floored, >= 0
calculateFinalScore(nowMs, startMs, penalties) ==
  Max(0, (1000000 - (nowMs - startMs) - 5000 * penalties) \div 100)

(* ---------------- callbacks, mood, audio ---------------- *)
Score(v) == [cb |-> "onScoreUpdate", val |-> v]
Penalty(v) == [cb |-> "onPenaltyUpdate", val |-> v]
FinalScore(v) == [cb |-> "onFinalScoreUpdate", val |-> v]
GameOver == [cb |-> "onGameOver", val |-> 0]
Win == [cb |-> "onWin", val |-> 0]

\* setCharacterMood(mood, duration): the timer only changes for duration > 0
MoodTimer(timer, duration) == IF duration > 0 THEN duration * Scale ELSE timer

\* stopAudio: the gain target after the call (tenths; no gain node, no change)
stopAudio(gain) == IF isAudioInitialized THEN 0 ELSE gain

SegmentAt(segs, tapeX) ==
  {i \in 1..Len(segs) :
     tapeX >= segs[i].x * Scale /\ tapeX < (segs[i].x + segs[i].width) * Scale}

\* updateAudio: the gain target after the call
updateAudio(gain, offset) ==
  IF ~isAudioInitialized THEN gain
  ELSE LET hit == SegmentAt(sourceSegments, getTapeXAtPlayhead(offset))
       IN  IF currentSpeed # 0 /\ hit # {}
           THEN LET segment == sourceSegments[CHOOSE i \in hit : \A j \in hit : i <= j]
                IN  IF gameMode = "CAT_MODE"
                    THEN (IF segment.color = targetColor THEN 3 ELSE 0)
                    ELSE 1
           ELSE 0

(* ---------------- construction ---------------- *)
Init ==
  /\ gameState = "START"
  /\ sourceSegments = <<>>
  /\ sequenceClips = <<>>
  /\ conveyorOffset = 0
  /\ markIn = NULL
  /\ markOut = NULL
  /\ currentSpeed = 0
  /\ lastTime = 0
  /\ startTime = 0
  /\ isHoldingK = FALSE
  /\ isHoldingJ = FALSE
  /\ isHoldingL = FALSE
  /\ inputTimestamps = [k \in {"j", "l"} |-> UNDEF]
  /\ inputStartOffsets = [k \in {"j", "l"} |-> UNDEF]
  /\ targetColor = RED
  /\ gameMode = "STANDARD"
  /\ penaltyCount = 0
  /\ characterMood = "idle"
  /\ characterMoodTimer = 0
  /\ isAudioInitialized = FALSE
  /\ gainTarget = 0
  /\ now = 0
  /\ events = 0
  /\ callbacks = <<>>

\* every user event (button or key) of a behaviour is counted; the model
\* follows a behaviour for MaxEvents user events
UserEvent == events < MaxEvents /\ events' = events + 1

(* ---------------- App.startGame / restartGame / goToMenu ---------------- *)
\* GameEngine.start, followed by the initAudio effect of GameCanvas, which
\* runs when gameState becomes PLAYING and may fail (audioOk = FALSE).
start(color, mode, tape, audioOk) ==
  /\ targetColor' = color
  /\ gameMode' = mode
  /\ conveyorOffset' = snapToFrame(0)
  /\ currentSpeed' = 0
  /\ markIn' = NULL
  /\ markOut' = NULL
  /\ penaltyCount' = 0
  /\ isHoldingK' = FALSE
  /\ isHoldingJ' = FALSE
  /\ isHoldingL' = FALSE
  /\ sequenceClips' = <<>>
  /\ sourceSegments' = tape
  /\ lastTime' = now
  /\ startTime' = now
  /\ callbacks' = <<Score(0), Penalty(0)>>
  /\ characterMood' = "idle"
  /\ isAudioInitialized' = (isAudioInitialized \/ audioOk)
  /\ gainTarget' = 0
  /\ UNCHANGED <<inputTimestamps, inputStartOffsets, characterMoodTimer, now>>

startGame ==
  /\ UserEvent
  /\ gameState = "START"
  /\ \E mode \in GameModes, color \in TargetDraws, tape \in StartTapes,
        audioOk \in BOOLEAN :
       start(color, mode, tape, audioOk)
  /\ gameState' = "PLAYING"

restartGame ==
  /\ UserEvent
  /\ gameState \in {"WON", "GAME_OVER"}
  /\ \E color \in TargetDraws, tape \in StartTapes, audioOk \in BOOLEAN :
       start(color, gameMode, tape, audioOk)
  /\ gameState' = "PLAYING"

goToMenu ==
  /\ UserEvent
  /\ gameState \in {"PLAYING", "WON", "GAME_OVER"}
  /\ gainTarget' = stopAudio(gainTarget)
  /\ gameState' = "START"
  /\ callbacks' = <<>>
  /\ UNCHANGED <<sourceSegments, sequenceClips, conveyorOffset, markIn, markOut,
                 currentSpeed, lastTime, startTime, isHoldingK, isHoldingJ,
                 isHoldingL, inputTimestamps, inputStartOffsets, targetColor,
                 gameMode, penaltyCount, characterMood, characterMoodTimer,
                 isAudioInitialized, now>>

(* ---------------- handleKeyDown ---------------- *)
\* an L ladder that goes from reverse straight to forward play
ShuttleLSkipsStop(speed) ==
  IF speed <= 0 THEN 1 * SpeedDen
  ELSE Min(speed * 2, MAX_SPEED * SpeedDen)

\* speed after an L / J key-down without K (shuttle ladder), in 1/SpeedDen
ShuttleL(speed) ==
  IF speed < 0 THEN 0
  ELSE IF speed = 0 THEN 1 * SpeedDen
  ELSE Min(speed * 2, MAX_SPEED * SpeedDen)

\* a J ladder that keeps doubling past -MAX_SPEED
ShuttleJUnclamped(speed) ==
  IF speed > 0 THEN 0
  ELSE IF speed = 0 THEN -1 * SpeedDen
  ELSE speed * 2

\* a J ladder without the stop from a forward speed
ShuttleJNoStop(speed) ==
  IF speed = 0 THEN -1 * SpeedDen
  ELSE Max(speed * 2, -MAX_SPEED * SpeedDen)

ShuttleJ(speed) ==
  IF speed > 0 THEN 0
  ELSE IF speed = 0 THEN -1 * SpeedDen
  ELSE Max(speed * 2, -MAX_SPEED * SpeedDen)

\* a K key-down that stops the transport where it is, without the snap
keyDownKNoSnap ==
  /\ UserEvent
  /\ gameState = "PLAYING"
  /\ callbacks' = <<>>
  /\ IF ~isHoldingK
     THEN /\ isHoldingK' = TRUE
          /\ currentSpeed' = 0
          /\ gainTarget' = stopAudio(gainTarget)
          /\ UNCHANGED conveyorOffset
     ELSE UNCHANGED <<isHoldingK, currentSpeed, conveyorOffset, gainTarget>>
  /\ UNCHANGED <<gameState, sourceSegments, sequenceClips, markIn, markOut,
                 lastTime, startTime, isHoldingJ, isHoldingL, inputTimestamps,
                 inputStartOffsets, targetColor, gameMode, penaltyCount,
                 characterMood, characterMoodTimer, isAudioInitialized, now>>

keyDownK ==
  /\ UserEvent
  /\ gameState = "PLAYING"
  /\ callbacks' = <<>>
  /\ IF ~isHoldingK
     THEN /\ isHoldingK' = TRUE
          /\ currentSpeed' = 0
          /\ conveyorOffset' = snapToFrame(conveyorOffset)
          /\ gainTarget' = stopAudio(gainTarget)
     ELSE UNCHANGED <<isHoldingK, currentSpeed, conveyorOffset, gainTarget>>
  /\ UNCHANGED <<gameState, sourceSegments, sequenceClips, markIn, markOut,
                 lastTime, startTime, isHoldingJ, isHoldingL, inputTimestamps,
                 inputStartOffsets, targetColor, gameMode, penaltyCount,
                 characterMood, characterMoodTimer, isAudioInitialized, now>>

\* an L key-down that takes every key-down for a press, held or not
keyDownLEveryRepeat ==
  /\ UserEvent
  /\ gameState = "PLAYING"
  /\ callbacks' = <<>>
  /\ isHoldingL' = TRUE
  /\ inputTimestamps' = [inputTimestamps EXCEPT !["l"] = now]
  /\ inputStartOffsets' = [inputStartOffsets EXCEPT !["l"] = conveyorOffset]
  /\ currentSpeed' = IF isHoldingK THEN 1 ELSE ShuttleL(currentSpeed)
  /\ UNCHANGED <<gameState, sourceSegments, sequenceClips, conveyorOffset, markIn,
                 markOut, lastTime, startTime, isHoldingK, isHoldingJ,
                 targetColor, gameMode, penaltyCount, characterMood,
                 characterMoodTimer, isAudioInitialized, gainTarget, now>>

keyDownL ==
  /\ UserEvent
  /\ gameState = "PLAYING"
  /\ callbacks' = <<>>
  /\ IF ~isHoldingL
     THEN /\ isHoldingL' = TRUE
          /\ inputTimestamps' = [inputTimestamps EXCEPT !["l"] = now]
          /\ inputStartOffsets' = [inputStartOffsets EXCEPT !["l"] = conveyorOffset]
          /\ currentSpeed' = IF isHoldingK THEN 1 ELSE ShuttleL(currentSpeed)
     ELSE UNCHANGED <<isHoldingL, inputTimestamps, inputStartOffsets, currentSpeed>>
  /\ UNCHANGED <<gameState, sourceSegments, sequenceClips, conveyorOffset, markIn,
                 markOut, lastTime, startTime, isHoldingK, isHoldingJ,
                 targetColor, gameMode, penaltyCount, characterMood,
                 characterMoodTimer, isAudioInitialized, gainTarget, now>>

keyDownJ ==
  /\ UserEvent
  /\ gameState = "PLAYING"
  /\ callbacks' = <<>>
  /\ IF ~isHoldingJ
     THEN /\ isHoldingJ' = TRUE
          /\ inputTimestamps' = [inputTimestamps EXCEPT !["j"] = now]
          /\ inputStartOffsets' = [inputStartOffsets EXCEPT !["j"] = conveyorOffset]
          /\ currentSpeed' = IF isHoldingK THEN -1 ELSE ShuttleJ(currentSpeed)
     ELSE UNCHANGED <<isHoldingJ, inputTimestamps, inputStartOffsets, currentSpeed>>
  /\ UNCHANGED <<gameState, sourceSegments, sequenceClips, conveyorOffset, markIn,
                 markOut, lastTime, startTime, isHoldingK, isHoldingL,
                 targetColor, gameMode, penaltyCount, characterMood,
                 characterMoodTimer, isAudioInitialized, gainTarget, now>>

\* KEY_I: the new markOut
MarkOutAfterI(newIn, out) == IF out # NULL /\ out < newIn THEN NULL ELSE out

\* a mark-in that also snaps the playhead to the frame it marks
keyDownISnaps ==
  /\ UserEvent
  /\ gameState = "PLAYING"
  /\ callbacks' = <<>>
  /\ LET tapeX == getTapeXAtPlayhead(conveyorOffset)
     IN  /\ markIn' = SnapPx(tapeX)
         /\ markOut' = MarkOutAfterI(SnapPx(tapeX), markOut)
  /\ conveyorOffset' = snapToFrame(conveyorOffset)
  /\ UNCHANGED <<gameState, sourceSegments, sequenceClips,
                 currentSpeed, lastTime, startTime, isHoldingK, isHoldingJ,
                 isHoldingL, inputTimestamps, inputStartOffsets, targetColor,
                 gameMode, penaltyCount, characterMood, characterMoodTimer,
                 isAudioInitialized, gainTarget, now>>

keyDownI ==
  /\ UserEvent
  /\ gameState = "PLAYING"
  /\ callbacks' = <<>>
  /\ LET tapeX == getTapeXAtPlayhead(conveyorOffset)
     IN  /\ markIn' = SnapPx(tapeX)
         /\ markOut' = MarkOutAfterI(SnapPx(tapeX), markOut)
  /\ UNCHANGED <<gameState, sourceSegments, sequenceClips, conveyorOffset,
                 currentSpeed, lastTime, startTime, isHoldingK, isHoldingJ,
                 isHoldingL, inputTimestamps, inputStartOffsets, targetColor,
                 gameMode, penaltyCount, characterMood, characterMoodTimer,
                 isAudioInitialized, gainTarget, now>>

\* an acceptance that also takes a position equal to markIn
AcceptOutInclusive(in, snappedX) == in = NULL \/ snappedX >= in

\* KEY_O: whether the snapped position is accepted as markOut
AcceptOut(in, snappedX) == in = NULL \/ snappedX > in

keyDownO ==
  /\ UserEvent
  /\ gameState = "PLAYING"
  /\ callbacks' = <<>>
  /\ LET snappedX == SnapPx(getTapeXAtPlayhead(conveyorOffset))
     IN  markOut' = IF AcceptOut(markIn, snappedX) THEN snappedX ELSE markOut
  /\ UNCHANGED <<gameState, sourceSegments, sequenceClips, conveyorOffset, markIn,
                 currentSpeed, lastTime, startTime, isHoldingK, isHoldingJ,
                 isHoldingL, inputTimestamps, inputStartOffsets, targetColor,
                 gameMode, penaltyCount, characterMood, characterMoodTimer,
                 isAudioInitialized, gainTarget, now>>

(* ---------------- performExtract ---------------- *)
\* the guards of performExtract: both marks set, positive duration and at
\* least one affected segment
ExtractDecided ==
  /\ markIn # NULL
  /\ markOut # NULL
  /\ markOut - markIn > 0
  /\ affectedSegments(sourceSegments, markIn, markOut) # <<>>

\* a clip list that takes the new clip at the front
ClipsAfterAtFront ==
  <<[id |-> now, width |-> markOut - markIn, color |-> targetColor]>> \o sequenceClips

\* the clip pushed on success and the total reported by onScoreUpdate
ClipsAfter == Append(sequenceClips,
                     [id |-> now, width |-> markOut - markIn, color |-> targetColor])

\* a win test that misses the exact threshold
ReachedWinStrict(totalPixels) == totalPixels > WIN_PIXELS

\* the win test: totalPixels >= WIN_PIXELS
ReachedWin(totalPixels) == totalPixels >= WIN_PIXELS

\* a failure path that also clears the marks and stops the transport
extractFailedResets ==
  /\ characterMood' = "worried"
  /\ characterMoodTimer' = MoodTimer(characterMoodTimer, 120)
  /\ callbacks' = <<GameOver>>
  /\ gameState' = "GAME_OVER"
  /\ markIn' = NULL
  /\ markOut' = NULL
  /\ currentSpeed' = 0
  /\ UNCHANGED <<sourceSegments, sequenceClips, conveyorOffset, gainTarget>>

\* failure path: mood, onGameOver, return
extractFailed ==
  /\ characterMood' = "worried"
  /\ characterMoodTimer' = MoodTimer(characterMoodTimer, 120)
  /\ callbacks' = <<GameOver>>
  /\ gameState' = "GAME_OVER"
  /\ UNCHANGED <<sourceSegments, sequenceClips, conveyorOffset, markIn, markOut,
                 currentSpeed, gainTarget>>

\* a win path that goes on to the ripple-delete and the reset of the marks
extractWinRipples ==
  /\ characterMood' = "happy"
  /\ characterMoodTimer' = MoodTimer(characterMoodTimer, 60)
  /\ sequenceClips' = ClipsAfter
  /\ callbacks' = <<Score(SumWidths(ClipsAfter)),
                    FinalScore(calculateFinalScore(now, startTime, penaltyCount)),
                    Win>>
  /\ gainTarget' = stopAudio(gainTarget)
  /\ gameState' = "WON"
  /\ sourceSegments' = RippleDelete(sourceSegments, markIn, markOut)
  /\ conveyorOffset' = snapToFrame(HalfWidth - markIn * Scale)
  /\ markIn' = NULL
  /\ markOut' = NULL
  /\ currentSpeed' = 0

\* success reaching WIN_PIXELS: final score, stopAudio, onWin, return
extractWin ==
  /\ characterMood' = "happy"
  /\ characterMoodTimer' = MoodTimer(characterMoodTimer, 60)
  /\ sequenceClips' = ClipsAfter
  /\ callbacks' = <<Score(SumWidths(ClipsAfter)),
                    FinalScore(calculateFinalScore(now, startTime, penaltyCount)),
                    Win>>
  /\ gainTarget' = stopAudio(gainTarget)
  /\ gameState' = "WON"
  /\ UNCHANGED <<sourceSegments, conveyorOffset, markIn, markOut, currentSpeed>>

\* a ripple path that reports the width of the new clip, not the total
extractRippleScoresClip ==
  /\ characterMood' = "happy"
  /\ characterMoodTimer' = MoodTimer(characterMoodTimer, 60)
  /\ sequenceClips' = ClipsAfter
  /\ callbacks' = <<Score(markOut - markIn)>>
  /\ sourceSegments' = RippleDelete(sourceSegments, markIn, markOut)
  /\ conveyorOffset' = snapToFrame(HalfWidth - markIn * Scale)
  /\ markIn' = NULL
  /\ markOut' = NULL
  /\ currentSpeed' = 0
  /\ gainTarget' = stopAudio(gainTarget)
  /\ UNCHANGED gameState

\* a ripple path that leaves conveyorOffset where the playhead was
extractRippleNoAnchor ==
  /\ characterMood' = "happy"
  /\ characterMoodTimer' = MoodTimer(characterMoodTimer, 60)
  /\ sequenceClips' = ClipsAfter
  /\ callbacks' = <<Score(SumWidths(ClipsAfter))>>
  /\ sourceSegments' = RippleDelete(sourceSegments, markIn, markOut)
  /\ conveyorOffset' = snapToFrame(conveyorOffset)
  /\ markIn' = NULL
  /\ markOut' = NULL
  /\ currentSpeed' = 0
  /\ gainTarget' = stopAudio(gainTarget)
  /\ UNCHANGED gameState

\* success below WIN_PIXELS: ripple delete and reset of the transport
extractRipple ==
  /\ characterMood' = "happy"
  /\ characterMoodTimer' = MoodTimer(characterMoodTimer, 60)
  /\ sequenceClips' = ClipsAfter
  /\ callbacks' = <<Score(SumWidths(ClipsAfter))>>
  /\ sourceSegments' = RippleDelete(sourceSegments, markIn, markOut)
  /\ conveyorOffset' = snapToFrame(HalfWidth - markIn * Scale)
  /\ markIn' = NULL
  /\ markOut' = NULL
  /\ currentSpeed' = 0
  /\ gainTarget' = stopAudio(gainTarget)
  /\ UNCHANGED gameState

\* a performExtract that treats an attempt with a mark unset as a failure
performExtractStrict ==
  IF markIn = NULL \/ markOut = NULL
  THEN extractFailed
  ELSE IF ~ExtractDecided
  THEN /\ callbacks' = <<>>
       /\ UNCHANGED <<gameState, sourceSegments, sequenceClips, conveyorOffset,
                      markIn, markOut, currentSpeed, characterMood,
                      characterMoodTimer, gainTarget>>
  ELSE IF ~ExtractSuccess(sourceSegments, markIn, markOut, targetColor, gameMode)
       THEN extractFailed
       ELSE IF ReachedWin(SumWidths(ClipsAfter))
            THEN extractWin
            ELSE extractRipple

performExtract ==
  IF ~ExtractDecided
  THEN /\ callbacks' = <<>>
       /\ UNCHANGED <<gameState, sourceSegments, sequenceClips, conveyorOffset,
                      markIn, markOut, currentSpeed, characterMood,
                      characterMoodTimer, gainTarget>>
  ELSE IF ~ExtractSuccess(sourceSegments, markIn, markOut, targetColor, gameMode)
       THEN extractFailed
       ELSE IF ReachedWin(SumWidths(ClipsAfter))
            THEN extractWin
            ELSE extractRipple

keyDownPeriod ==
  /\ UserEvent
  /\ gameState = "PLAYING"
  /\ performExtract
  /\ UNCHANGED <<lastTime, startTime, isHoldingK, isHoldingJ, isHoldingL,
                 inputTimestamps, inputStartOffsets, targetColor, gameMode,
                 penaltyCount, isAudioInitialized, now>>

(* ---------------- handleKeyUp ---------------- *)
\* key-up listener of GameCanvas: forwarded in every gameState
keyUpK ==
  /\ UserEvent
  /\ callbacks' = <<>>
  /\ isHoldingK' = FALSE
  /\ UNCHANGED <<gameState, sourceSegments, sequenceClips, conveyorOffset, markIn,
                 markOut, currentSpeed, lastTime, startTime, isHoldingJ,
                 isHoldingL, inputTimestamps, inputStartOffsets, targetColor,
                 gameMode, penaltyCount, characterMood, characterMoodTimer,
                 isAudioInitialized, gainTarget, now>>

\* a tap test that also takes a release at exactly 200 ms for a tap
IsTapInclusive(key) ==
  inputTimestamps[key] # UNDEF /\ now - inputTimestamps[key] <= TAP_MS

\* now - inputTimestamps[key] < 200 (NaN < 200 is false for a key never pressed)
IsTap(key) == inputTimestamps[key] # UNDEF /\ now - inputTimestamps[key] < TAP_MS

\* a tap-step that steps from the live playhead position
TapOffsetLive(startOffset, dir) ==
  HalfWidth - (SnapPx(getTapeXAtPlayhead(conveyorOffset)) + dir * FRAME_PIXELS) * Scale

\* the conveyorOffset of a tap-step: one frame from the grid position at press
TapOffset(startOffset, dir) ==
  LET startTapeX == HalfWidth - startOffset
      gridTapeX == SnapPx(startTapeX)
      targetTapeX == gridTapeX + dir * FRAME_PIXELS
  IN  HalfWidth - targetTapeX * Scale

\* a release with K held that counts every release as a bad habit
releaseWithKAlwaysPenalty(key, dir) ==
  /\ currentSpeed' = 0
  /\ gainTarget' = stopAudio(gainTarget)
  /\ penaltyCount < MaxPenalty
  /\ conveyorOffset' = IF IsTap(key) THEN TapOffset(inputStartOffsets[key], dir)
                       ELSE snapToFrame(conveyorOffset)
  /\ penaltyCount' = penaltyCount + 1
  /\ callbacks' = <<Penalty(penaltyCount + 1)>>
  /\ characterMood' = "worried"
  /\ characterMoodTimer' = MoodTimer(characterMoodTimer, 200)

\* L / J key-up while K is held; dir is +1 for L and -1 for J
releaseWithK(key, dir) ==
  /\ currentSpeed' = 0
  /\ gainTarget' = stopAudio(gainTarget)
  /\ IF IsTap(key)
     THEN /\ penaltyCount < MaxPenalty
          /\ conveyorOffset' = TapOffset(inputStartOffsets[key], dir)
          /\ penaltyCount' = penaltyCount + 1
          /\ callbacks' = <<Penalty(penaltyCount + 1)>>
          /\ characterMood' = "worried"
          /\ characterMoodTimer' = MoodTimer(characterMoodTimer, 200)
     ELSE /\ conveyorOffset' = snapToFrame(conveyorOffset)
          /\ callbacks' = <<>>
          /\ UNCHANGED <<penaltyCount, characterMood, characterMoodTimer>>

\* an L key-up that stops and snaps, or steps, whether K is held or not
keyUpLWithoutK ==
  /\ UserEvent
  /\ isHoldingL' = FALSE
  /\ releaseWithK("l", 1)
  /\ UNCHANGED <<gameState, sourceSegments, sequenceClips, markIn, markOut,
                 lastTime, startTime, isHoldingK, isHoldingJ, inputTimestamps,
                 inputStartOffsets, targetColor, gameMode, isAudioInitialized, now>>

keyUpL ==
  /\ UserEvent
  /\ isHoldingL' = FALSE
  /\ IF isHoldingK
     THEN releaseWithK("l", 1)
     ELSE /\ callbacks' = <<>>
          /\ UNCHANGED <<currentSpeed, gainTarget, conveyorOffset, penaltyCount,
                         characterMood, characterMoodTimer>>
  /\ UNCHANGED <<gameState, sourceSegments, sequenceClips, markIn, markOut,
                 lastTime, startTime, isHoldingK, isHoldingJ, inputTimestamps,
                 inputStartOffsets, targetColor, gameMode, isAudioInitialized, now>>

keyUpJ ==
  /\ UserEvent
  /\ isHoldingJ' = FALSE
  /\ IF isHoldingK
     THEN releaseWithK("j", -1)
     ELSE /\ callbacks' = <<>>
          /\ UNCHANGED <<currentSpeed, gainTarget, conveyorOffset, penaltyCount,
                         characterMood, characterMoodTimer>>
  /\ UNCHANGED <<gameState, sourceSegments, sequenceClips, markIn, markOut,
                 lastTime, startTime, isHoldingK, isHoldingL, inputTimestamps,
                 inputStartOffsets, targetColor, gameMode, isAudioInitialized, now>>

(* ---------------- update / render loop ---------------- *)
\* a transport that moves one frame per unit of speed in every tick, whatever
\* time the tick took
TransportPerTick(offset, speed, dt) == offset - (speed * FRAME_PIXELS * Scale) \div SpeedDen

\* conveyorOffset after update: offset - currentSpeed * FRAME_PIXELS * dt
Transport(offset, speed, dt) == offset - (speed * FRAME_PIXELS * dt) \div SpeedDen

\* the speed-derived default mood
DefaultMood(speed) ==
  IF Abs(speed) > 4 * SpeedDen THEN "dizzy"
  ELSE IF speed # 0 THEN "focused"
  ELSE "idle"

\* update with the audio evaluated before the transport has moved the tape
updateStale(timestamp) ==
  LET dt == (timestamp - lastTime) * DtPerMs
      offset == Transport(conveyorOffset, currentSpeed, dt)
  IN  /\ lastTime' = timestamp
      /\ conveyorOffset' = offset
      /\ IF characterMoodTimer > 0
         THEN /\ characterMoodTimer' = characterMoodTimer - dt
              /\ characterMood' =
                   IF characterMoodTimer - dt <= 0 THEN "idle" ELSE characterMood
         ELSE /\ characterMood' = DefaultMood(currentSpeed)
              /\ UNCHANGED characterMoodTimer
      /\ gainTarget' = updateAudio(gainTarget, conveyorOffset)

update(timestamp) ==
  LET dt == (timestamp - lastTime) * DtPerMs
      offset == Transport(conveyorOffset, currentSpeed, dt)
  IN  /\ lastTime' = timestamp
      /\ conveyorOffset' = offset
      /\ IF characterMoodTimer > 0
         THEN /\ characterMoodTimer' = characterMoodTimer - dt
              /\ characterMood' =
                   IF characterMoodTimer - dt <= 0 THEN "idle" ELSE characterMood
         ELSE /\ characterMood' = DefaultMood(currentSpeed)
              /\ UNCHANGED characterMoodTimer
      /\ gainTarget' = updateAudio(gainTarget, offset)

\* one callback of requestAnimationFrame, d ms after the previous one;
\* update runs only while PLAYING
render ==
  \E d \in {TickMs, TAP_MS} :
    /\ now + d <= MaxTicks * TickMs
    /\ now' = now + d
    /\ UNCHANGED events
    /\ callbacks' = <<>>
    /\ IF gameState = "PLAYING"
       THEN update(now + d)
       ELSE UNCHANGED <<lastTime, conveyorOffset, characterMood,
                        characterMoodTimer, gainTarget>>
    /\ UNCHANGED <<gameState, sourceSegments, sequenceClips, markIn, markOut,
                   currentSpeed, startTime, isHoldingK, isHoldingJ, isHoldingL,
                   inputTimestamps, inputStartOffsets, targetColor, gameMode,
                   penaltyCount, isAudioInitialized>>

Next ==
  \/ startGame
  \/ restartGame
  \/ goToMenu
  \/ keyDownK
  \/ keyDownL
  \/ keyDownJ
  \/ keyDownI
  \/ keyDownO
  \/ keyDownPeriod
  \/ keyUpK
  \/ keyUpL
  \/ keyUpJ
  \/ render

Spec == Init /\ [][Next]_vars

(* ---------------- a run in progress ---------------- *)
\* The extraction claims are checked from states of a run in progress: a
\* generated tape on which up to MaxPrior extractions have been accepted
\* (each took one target segment, with the allowed silence on both sides in
\* CAT_MODE), the transport parked, and the marks set around one of the
\* first segments of the remaining tape.  Every such state is a state of
\* play: the playhead reaches every frame position by shuttle and jog, I and
\* O set the marks there, and performExtract is the code that accepted the
\* earlier ranges.
PriorSilence(mode) ==
  IF mode = "CAT_MODE" THEN ALLOWED_SILENCE_FRAMES * FRAME_PIXELS ELSE 0

PriorStep(run, target, mode) ==
  LET segs == run.segs
      sil == PriorSilence(mode)
  IN  {[segs |-> RippleDelete(segs, segs[i].x - sil, segs[i].x + segs[i].width + sil),
        clips |-> Append(run.clips,
                         [id |-> 0, width |-> segs[i].width + 2 * sil,
                          color |-> target])] :
         i \in {j \in 1..Len(segs) :
                  /\ segs[j].color = target
                  /\ ExtractSuccess(segs, segs[j].x - sil,
                                    segs[j].x + segs[j].width + sil, target, mode)
                  /\ SumWidths(run.clips) + segs[j].width + 2 * sil < WIN_PIXELS}}

RECURSIVE Played(_, _, _, _)
Played(k, run, target, mode) ==
  {run} \cup
  (IF k = 0 THEN {}
   ELSE UNION {Played(k - 1, next, target, mode) :
                 next \in PriorStep(run, target, mode)})

BoundaryAt(segs, k) ==
  IF k <= Len(segs) THEN segs[k].x
  ELSE segs[Len(segs)].x + segs[Len(segs)].width

InOffsets == {-66, -60, -6, 0, 6}
OutOffsets == {-6, 0, 6, 60, 66}

MarkPairs(segs) ==
  LET n == Len(segs) + 1
      ins == {BoundaryAt(segs, k) + d : k \in 1..Min(MarkWindow, n), d \in InOffsets}
      outs == {BoundaryAt(segs, k) + e : k \in 1..Min(MarkWindow + 3, n), e \in OutOffsets}
  IN  {<<a, b>> \in ins \X outs : b > a /\ b - a <= SEGMENT_MAX_WIDTH + 132}
      \cup {<<NULL, NULL>>}
      \cup {<<a, NULL>> : a \in ins}
      \cup {<<NULL, b>> : b \in outs}

InitExtract ==
  /\ gameState = "PLAYING"
  /\ gameMode \in GameModes
  /\ targetColor \in TargetDraws
  /\ \E tape \in GeneratedTapes :
       \E run \in Played(MaxPrior, [segs |-> tape, clips |-> <<>>],
                         targetColor, gameMode) :
         /\ sourceSegments = run.segs
         /\ sequenceClips = run.clips
  /\ \E marks \in MarkPairs(sourceSegments) :
       /\ markIn = marks[1]
       /\ markOut = marks[2]
  /\ conveyorOffset =
       HalfWidth - Scale * (IF markOut # NULL THEN markOut
                            ELSE IF markIn # NULL THEN markIn
                            ELSE BoundaryAt(sourceSegments, 1))
  /\ currentSpeed = 0
  /\ now = MaxTicks * TickMs
  /\ lastTime = now
  /\ startTime = 0
  /\ isHoldingK = FALSE
  /\ isHoldingJ = FALSE
  /\ isHoldingL = FALSE
  /\ inputTimestamps = [k \in {"j", "l"} |-> 0]
  /\ inputStartOffsets = [k \in {"j", "l"} |-> snapToFrame(0)]
  /\ penaltyCount \in {0, MaxPenalty}
  /\ characterMood = "idle"
  /\ characterMoodTimer = 0
  /\ isAudioInitialized \in BOOLEAN
  /\ gainTarget = 0
  /\ callbacks = <<>>
  /\ events = MaxEvents - 1

NextExtract == keyDownPeriod

SpecExtract == InitExtract /\ [][NextExtract]_vars

(* ---------------- a run just started ---------------- *)
\* The state App.startGame leaves a newly constructed engine in (Init
\* followed by startGame), from which the user events of the run are counted.
InitRun ==
  /\ gameState = "PLAYING"
  /\ gameMode \in GameModes
  /\ targetColor \in TargetDraws
  /\ sourceSegments \in StartTapes
  /\ sequenceClips = <<>>
  /\ conveyorOffset = snapToFrame(0)
  /\ currentSpeed = 0
  /\ markIn = NULL
  /\ markOut = NULL
  /\ penaltyCount = 0
  /\ isHoldingK = FALSE
  /\ isHoldingJ = FALSE
  /\ isHoldingL = FALSE
  /\ now = 0
  /\ lastTime = 0
  /\ startTime = 0
  /\ inputTimestamps = [k \in {"j", "l"} |-> UNDEF]
  /\ inputStartOffsets = [k \in {"j", "l"} |-> UNDEF]
  /\ characterMood = "idle"
  /\ characterMoodTimer = 0
  /\ isAudioInitialized \in BOOLEAN
  /\ gainTarget = 0
  /\ callbacks = <<Score(0), Penalty(0)>>
  /\ events = 0

SpecRun == InitRun /\ [][Next]_vars

(* ---------------- a run with the shuttle already engaged ---------------- *)
\* The states a new run is in after up to MaxPresses press-and-release
\* cycles of L or J without K, before the next animation frame: the speed
\* the ladder of handleKeyDown gives, and for each of L and J whether it was
\* pressed (its timestamp and press offset are then those of the start).
\* The start of the run is the first user event.
RECURSIVE Shuttled(_)
Shuttled(k) ==
  IF k = 0 THEN {[speed |-> 0, l |-> FALSE, j |-> FALSE]}
  ELSE LET prev == Shuttled(k - 1)
       IN  prev
           \cup {[speed |-> ShuttleL(p.speed), l |-> TRUE, j |-> p.j] : p \in prev}
           \cup {[speed |-> ShuttleJ(p.speed), l |-> p.l, j |-> TRUE] : p \in prev}

InitShuttle ==
  /\ gameState = "PLAYING"
  /\ gameMode \in GameModes
  /\ targetColor \in TargetDraws
  /\ sourceSegments \in {t \in StartTapes : t[1].color = targetColor}
  /\ sequenceClips = <<>>
  /\ conveyorOffset = snapToFrame(0)
  /\ markIn = NULL
  /\ markOut = NULL
  /\ penaltyCount = 0
  /\ isHoldingK = FALSE
  /\ isHoldingJ = FALSE
  /\ isHoldingL = FALSE
  /\ now = 0
  /\ lastTime = 0
  /\ startTime = 0
  /\ \E p \in Shuttled(MaxPresses) :
       /\ currentSpeed = p.speed
       /\ inputTimestamps = [k \in {"j", "l"} |->
                               IF (k = "l" /\ p.l) \/ (k = "j" /\ p.j)
                               THEN 0 ELSE UNDEF]
       /\ inputStartOffsets = [k \in {"j", "l"} |->
                                 IF (k = "l" /\ p.l) \/ (k = "j" /\ p.j)
                                 THEN snapToFrame(0) ELSE UNDEF]
  /\ characterMood = "idle"
  /\ characterMoodTimer = 0
  /\ isAudioInitialized \in BOOLEAN
  /\ gainTarget = 0
  /\ callbacks = <<>>
  /\ events = 1

NextShuttle ==
  \/ keyDownK
  \/ keyDownL
  \/ keyDownJ
  \/ keyUpK
  \/ keyUpL
  \/ keyUpJ
  \/ render

SpecShuttle == InitShuttle /\ [][NextShuttle]_vars

(* ---------------- a run about to be scored ---------------- *)
\* The states of a run in progress in which the in-mark and the out-mark
\* stand on the bounds of a target segment (with the allowed silence around
\* it in CAT_MODE) after up to MaxPrior accepted extractions, at the elapsed
\* times (ms) and the penalty counts the final score is computed for.
ScoreTimes == {0, 99, 100, 1000, 999900, 999901, 1000000, 1000100, 2000000}
ScorePenalties == {0, 1, 2, 199, 200, 201, 400}

InitScore ==
  /\ gameState = "PLAYING"
  /\ gameMode \in GameModes
  /\ targetColor \in TargetDraws
  /\ \E tape \in GeneratedTapes :
       \E run \in Played(MaxPrior, [segs |-> tape, clips |-> <<>>],
                         targetColor, gameMode) :
         /\ sourceSegments = run.segs
         /\ sequenceClips = run.clips
  /\ \E i \in 1..Len(sourceSegments) :
       /\ sourceSegments[i].color = targetColor
       /\ \A j \in 1..(i - 1) : sourceSegments[j].color # targetColor
       /\ markIn = sourceSegments[i].x - PriorSilence(gameMode)
       /\ markOut = sourceSegments[i].x + sourceSegments[i].width
                      + PriorSilence(gameMode)
  /\ conveyorOffset = HalfWidth - Scale * markOut
  /\ currentSpeed = 0
  /\ now \in ScoreTimes
  /\ lastTime = now
  /\ startTime = 0
  /\ isHoldingK = FALSE
  /\ isHoldingJ = FALSE
  /\ isHoldingL = FALSE
  /\ inputTimestamps = [k \in {"j", "l"} |-> 0]
  /\ inputStartOffsets = [k \in {"j", "l"} |-> snapToFrame(0)]
  /\ penaltyCount \in ScorePenalties
  /\ characterMood = "idle"
  /\ characterMoodTimer = 0
  /\ isAudioInitialized = TRUE
  /\ gainTarget = 0
  /\ callbacks = <<>>
  /\ events = MaxEvents - 1

SpecScore == InitScore /\ [][NextExtract]_vars

(* ---------------- a run on a tape of full length ---------------- *)
\* generateSourceTape as the code runs it: the loop makes TAPE_SEGMENTS
\* iterations.  The raw widths of a tape repeat RawCycle with a stride and a
\* phase; the cycle holds both ends of the range of Math.random() and widths
\* half-way between two frames.  The colours walk the palette with a stride
\* and a phase, and as in ColorDraws a draw equal to the predecessor's colour
\* is rejected.
TAPE_SEGMENTS == 200
RawCycle == <<100, 105, 113, 200, 297, 299>>
Palette == <<"RED", "BLUE", "GREEN", "YELLOW", "PURPLE", "ORANGE">>

FullRawDraws ==
  {[i \in 1..TAPE_SEGMENTS |-> RawCycle[((i * s + k) % Len(RawCycle)) + 1]] :
     s \in {0, 1, 5}, k \in 0..(Len(RawCycle) - 1)}

FullColorDraws ==
  {cs \in {[i \in 1..TAPE_SEGMENTS |-> Palette[((i * s + k) % Len(Palette)) + 1]] :
             s \in 0..(Len(Palette) - 1), k \in 0..(Len(Palette) - 1)} :
     /\ \A i \in 1..TAPE_SEGMENTS : cs[i] \in AVAILABLE_COLORS
     /\ \A i \in 2..TAPE_SEGMENTS : cs[i] # cs[i - 1]}

FullTapes ==
  {generateSourceTape(raws, cols) : raws \in FullRawDraws, cols \in FullColorDraws}

\* App.startGame on a tape of full length
startGameFullTape ==
  /\ UserEvent
  /\ gameState = "START"
  /\ \E mode \in GameModes, color \in TargetDraws, tape \in FullTapes,
        audioOk \in BOOLEAN :
       start(color, mode, tape, audioOk)
  /\ gameState' = "PLAYING"

SpecTape == Init /\ [][startGameFullTape]_vars

(* ---------------- a run some time after a flagged event ---------------- *)
\* The states of a run in which a tap-step was penalised, or an extraction
\* accepted, MoodAgo ms earlier: the mood of the event and what the update
\* ticks since have left of its timer.  After the event the player has
\* parked the transport with K on the frame of the start and released K.
\* Times are counted from this state, the run having begun before it.
HappyAgo == {800, 900}
WorriedAgo == {3200, 3300}

InitMood ==
  /\ gameState = "PLAYING"
  /\ gameMode \in GameModes
  /\ targetColor \in TargetDraws
  /\ \/ /\ sourceSegments \in {t \in StartTapes : t[1].color = targetColor}
        /\ sequenceClips = <<>>
        /\ penaltyCount = 1
        /\ characterMood = "worried"
        /\ \E ago \in WorriedAgo :
             /\ characterMoodTimer = MoodTimer(0, 200) - ago * DtPerMs
             /\ startTime = -ago
     \/ /\ \E tape \in {t \in StartTapes : t[1].color = targetColor} :
             \E run \in PriorStep([segs |-> tape, clips |-> <<>>],
                                  targetColor, gameMode) :
               /\ sourceSegments = run.segs
               /\ sequenceClips = run.clips
        /\ penaltyCount = 0
        /\ characterMood = "happy"
        /\ \E ago \in HappyAgo :
             /\ characterMoodTimer = MoodTimer(0, 60) - ago * DtPerMs
             /\ startTime = -ago
  /\ conveyorOffset = snapToFrame(0)
  /\ currentSpeed = 0
  /\ markIn = NULL
  /\ markOut = NULL
  /\ isHoldingK = FALSE
  /\ isHoldingJ = FALSE
  /\ isHoldingL = FALSE
  /\ now = 0
  /\ lastTime = 0
  /\ inputTimestamps = [k \in {"j", "l"} |-> UNDEF]
  /\ inputStartOffsets = [k \in {"j", "l"} |-> UNDEF]
  /\ isAudioInitialized = TRUE
  /\ gainTarget = 0
  /\ callbacks = <<>>
  /\ events = 1

NextMood ==
  \/ keyDownK
  \/ keyDownL
  \/ keyDownJ
  \/ keyDownI
  \/ keyDownO
  \/ keyDownPeriod
  \/ keyUpK
  \/ keyUpL
  \/ keyUpJ
  \/ render

SpecMood == InitMood /\ [][NextMood]_vars

(* ======================= claims ======================= *)
\* playhead tape position, 1/Scale pixel, and whether it is on the frame grid
PlayheadX == (CANVAS_WIDTH \div 2) * Scale - conveyorOffset
OnFrameGrid == PlayheadX % (FRAME_PIXELS * Scale) = 0

\* C1: every step that takes currentSpeed from a nonzero value to 0 leaves
\* the playhead tape position on an exact multiple of FRAME_PIXELS.
C1_StopOnFrameGrid ==
  [][(currentSpeed # 0 /\ currentSpeed' = 0) => OnFrameGrid']_vars

\* C2: the source tape is ordered by x, contiguous, non-overlapping and
\* every segment has a strictly positive width, after any sequence of
\* accepted non-winning extractions.
C2_TapeContiguous ==
  \A i \in 1..Len(sourceSegments) :
    /\ sourceSegments[i].width > 0
    /\ i < Len(sourceSegments) =>
         sourceSegments[i].x + sourceSegments[i].width = sourceSegments[i + 1].x
    /\ \A j \in (i + 1)..Len(sourceSegments) :
         /\ sourceSegments[i].x < sourceSegments[j].x
         /\ sourceSegments[i].x + sourceSegments[i].width <= sourceSegments[j].x

\* several extractions were accepted, the last one just now, and it cut a
\* segment short
C2_Witness ==
  /\ gameState = "PLAYING"
  /\ Len(sequenceClips) >= 3
  /\ callbacks = <<Score(SumWidths(sequenceClips))>>
  /\ \E i \in 1..Len(sourceSegments) : sourceSegments[i].width < SEGMENT_MIN_WIDTH

\* an accepted extraction that did not end the run
RippleStep ==
  /\ keyDownPeriod
  /\ Len(sequenceClips') = Len(sequenceClips) + 1
  /\ gameState' = "PLAYING"

ColorsOf(segs) == [i \in 1..Len(segs) |-> segs[i].color]

Overlapped(s, a, b) == s.x < b /\ s.x + s.width > a

\* C3: an accepted non-winning extraction of [markIn, markOut) shortens the
\* tape by exactly markOut - markIn and keeps the colours of the segments the
\* range does not overlap in their order.
C3_RippleRemovesDuration ==
  [][RippleStep =>
       LET untouched == SelectSeq(sourceSegments,
                                  LAMBDA s : ~Overlapped(s, markIn, markOut))
           ids == {untouched[i].id : i \in 1..Len(untouched)}
           kept == SelectSeq(sourceSegments', LAMBDA s : s.id \in ids)
       IN  /\ SumWidths(sourceSegments') =
                SumWidths(sourceSegments) - (markOut - markIn)
           /\ ColorsOf(kept) = ColorsOf(untouched)]_vars

\* C4: when both marks are set, markOut is strictly greater than markIn.
C4_MarkOutAfterMarkIn ==
  (markIn # NULL /\ markOut # NULL) => markOut > markIn

\* the frame-grid position one frame from the playhead position recorded at
\* the key-down of key, in 1/Scale pixel
StepTarget(key, dir) ==
  LET pressTapeX == (CANVAS_WIDTH \div 2) * Scale - inputStartOffsets[key]
  IN  (Round(pressTapeX, FRAME_PIXELS * Scale) * FRAME_PIXELS + dir * FRAME_PIXELS)
        * Scale

QuickRelease(key) ==
  /\ isHoldingK
  /\ inputTimestamps[key] # UNDEF
  /\ now - inputTimestamps[key] < TAP_MS

\* C5: an L (J) key-up less than 200 ms after its key-down, with K held,
\* puts the playhead exactly one frame after (before) the frame-grid position
\* of the press, whatever happened in between; the speed becomes 0 and
\* penaltyCount grows by exactly 1.
C5_TapStepOneFrame ==
  [][/\ (keyUpL /\ QuickRelease("l")) =>
          /\ PlayheadX' = StepTarget("l", 1)
          /\ currentSpeed' = 0
          /\ penaltyCount' = penaltyCount + 1
     /\ (keyUpJ /\ QuickRelease("j")) =>
          /\ PlayheadX' = StepTarget("j", -1)
          /\ currentSpeed' = 0
          /\ penaltyCount' = penaltyCount + 1]_vars

\* a tap-step of L has just been taken, one tick after the press, and the
\* jog in between had carried the playhead more than a frame away
C5_Witness ==
  /\ callbacks = <<Penalty(penaltyCount)>>
  /\ isHoldingK
  /\ ~isHoldingL
  /\ inputTimestamps["l"] # UNDEF
  /\ now - inputTimestamps["l"] = TickMs
  /\ lastTime = now
  /\ PlayheadX = StepTarget("l", 1)

\* the extract key is pressed with both marks set and markOut > markIn
ExtractAttempt ==
  /\ keyDownPeriod
  /\ markIn # NULL
  /\ markOut # NULL
  /\ markOut > markIn

\* the attempt was accepted (a clip was appended) / ended the run in game-over
Accepted == Len(sequenceClips') = Len(sequenceClips) + 1
Rejected == callbacks' = <<GameOver>> /\ gameState' = "GAME_OVER"

\* the target-coloured segments of the tape that overlap [markIn, markOut)
TargetsInRange ==
  {i \in 1..Len(sourceSegments) :
     /\ sourceSegments[i].color = targetColor
     /\ Overlapped(sourceSegments[i], markIn, markOut)}

\* pixels of [markIn, markOut) lying on a target-coloured segment, counted
\* frame by frame (marks and segments are on the frame grid)
TargetCoverage ==
  FRAME_PIXELS *
  Cardinality({f \in (markIn \div FRAME_PIXELS)..((markOut \div FRAME_PIXELS) - 1) :
                 \E i \in 1..Len(sourceSegments) :
                   /\ sourceSegments[i].color = targetColor
                   /\ sourceSegments[i].x <= f * FRAME_PIXELS
                   /\ f * FRAME_PIXELS < sourceSegments[i].x + sourceSegments[i].width})

\* C6: in STANDARD mode an extraction of [markIn, markOut) succeeds if at
\* least 95% of the range is covered by target-coloured segments and fails
\* otherwise, pixels off the tape counting as not covered.
C6_StandardAccuracy ==
  [][(ExtractAttempt /\ gameMode = "STANDARD") =>
       IF 100 * TargetCoverage >= 95 * (markOut - markIn)
       THEN Accepted
       ELSE Rejected]_vars

\* C7: in CAT_MODE an extraction is accepted only if exactly one
\* target-coloured segment overlaps [markIn, markOut).
C7_CatExactlyOneTarget ==
  [][(ExtractAttempt /\ gameMode = "CAT_MODE" /\ Accepted) =>
       Cardinality(TargetsInRange) = 1]_vars

\* a target segment T is cut by the range, or the range holds more than the
\* allowed silence before or after it
CatViolation(T) ==
  \/ markIn > T.x
  \/ markOut < T.x + T.width
  \/ T.x - markIn > ALLOWED_SILENCE_FRAMES * FRAME_PIXELS
  \/ markOut - (T.x + T.width) > ALLOWED_SILENCE_FRAMES * FRAME_PIXELS

\* C8: in CAT_MODE an extraction fails when a target-coloured segment
\* overlapping the range is truncated or has more than 60 px of silence on
\* one side, fails when no target segment overlaps, and succeeds when the
\* target segment is fully contained with at most 60 px of silence per side.
C8_CatContainmentAndSilence ==
  [][(ExtractAttempt /\ gameMode = "CAT_MODE") =>
       /\ (\E i \in TargetsInRange : CatViolation(sourceSegments[i])) => Rejected
       /\ TargetsInRange = {} => Rejected
       /\ (/\ TargetsInRange # {}
           /\ \A i \in TargetsInRange : ~CatViolation(sourceSegments[i])) => Accepted]_vars

HasWin(cbs) == \E i \in 1..Len(cbs) : cbs[i] = Win

\* C9: the win signal is emitted by exactly the accepted extraction that
\* takes the sum of the clip widths from below WIN_PIXELS to WIN_PIXELS or
\* more, and it comes after the score update carrying that sum and after the
\* final-score update.
C9_WinAtThreshold ==
  [][/\ HasWin(callbacks') <=>
          /\ Accepted
          /\ SumWidths(sequenceClips) < WIN_PIXELS
          /\ SumWidths(sequenceClips') >= WIN_PIXELS
     /\ HasWin(callbacks') =>
          /\ Len(callbacks') = 3
          /\ callbacks'[1] = Score(SumWidths(sequenceClips'))
          /\ callbacks'[2].cb = "onFinalScoreUpdate"
          /\ callbacks'[3] = Win]_vars

\* the run has just been won with clips that sum to WIN_PIXELS exactly
C9_Witness ==
  /\ gameState = "WON"
  /\ HasWin(callbacks)
  /\ SumWidths(sequenceClips) = WIN_PIXELS

\* C10: a failed extraction signals game-over, emits no score update and
\* leaves the tape, the clips, the marks, the conveyor offset, the speed and
\* the penalty count as they were.
C10_FailureChangesNothing ==
  [][(/\ ExtractAttempt
      /\ affectedSegments(sourceSegments, markIn, markOut) # <<>>
      /\ ~Accepted) =>
       /\ callbacks' = <<GameOver>>
       /\ gameState' = "GAME_OVER"
       /\ UNCHANGED <<sourceSegments, sequenceClips, markIn, markOut,
                      conveyorOffset, currentSpeed, penaltyCount>>]_vars

\* game-over has just been signalled while the tape was shuttling between
\* frames with both marks set
C10_Witness ==
  /\ callbacks = <<GameOver>>
  /\ gameState = "GAME_OVER"
  /\ currentSpeed # 0
  /\ ~OnFrameGrid
  /\ markIn # NULL
  /\ markOut # NULL


HasScore(cbs) == \E i \in 1..Len(cbs) : cbs[i].cb = "onScoreUpdate"

\* C11: every press of the extract key with both marks set and
\* markOut > markIn is decided: a clip is appended and a score update
\* emitted, or game-over is signalled, wherever the marks lie on or off the
\* tape.
C11_AttemptIsDecided ==
  [][ExtractAttempt =>
       \/ Accepted /\ HasScore(callbacks')
       \/ Rejected]_vars


HasGameOver(cbs) == \E i \in 1..Len(cbs) : cbs[i] = GameOver

\* the run has ended in a win or in game-over and start() is not called in
\* this step
StaysEnded ==
  /\ gameState \in {"WON", "GAME_OVER"}
  /\ gameState' # "PLAYING"

\* C12: win and game-over are terminal.  Once the run has ended, no step
\* before the next start() invokes a callback or changes penaltyCount,
\* conveyorOffset or sequenceClips, with key-ups still forwarded; and win
\* and game-over are only signalled by a step that ends a run in play.
C12_TerminalIsFinal ==
  [][/\ StaysEnded =>
          /\ callbacks' = <<>>
          /\ UNCHANGED <<penaltyCount, conveyorOffset, sequenceClips>>
     /\ (HasWin(callbacks') \/ HasGameOver(callbacks')) =>
          /\ gameState = "PLAYING"
          /\ gameState' \in {"WON", "GAME_OVER"}]_vars


\* the run in play ends in this step: win, game-over or exit to the menu
RunEnds == gameState = "PLAYING" /\ gameState' # "PLAYING"

\* C13: the step that ends a run (winning extraction, failed extraction,
\* exit to the menu) leaves the audio gain target at 0, whatever the speed
\* and the playhead position, also while a tone is sounding.
C13_RunEndSilencesAudio ==
  [][RunEnds => gainTarget' = 0]_vars


\* C14: after an accepted extraction that does not reach the win threshold
\* both marks are null, currentSpeed is 0, the audio gain target is 0 and the
\* playhead tape position is the former markIn, a multiple of FRAME_PIXELS;
\* tape content that followed the removed range now starts at the playhead.
C14_ResetAfterExtract ==
  [][RippleStep =>
       /\ markIn' = NULL
       /\ markOut' = NULL
       /\ currentSpeed' = 0
       /\ gainTarget' = 0
       /\ markIn % FRAME_PIXELS = 0
       /\ PlayheadX' = markIn * Scale
       /\ (\E i \in 1..Len(sourceSegments) :
             sourceSegments[i].x + sourceSegments[i].width > markOut)
          => \E j \in 1..Len(sourceSegments') : sourceSegments'[j].x = markIn]_vars

\* an extraction has just been accepted while the tape was shuttling and the
\* playhead was re-anchored to the in-mark, away from where it was
C14_Witness ==
  /\ gameState = "PLAYING"
  /\ Len(sequenceClips) = 1
  /\ callbacks = <<Score(SumWidths(sequenceClips))>>
  /\ isHoldingJ
  /\ lastTime > 0
  /\ PlayheadX # Round(getTapeXAtPlayhead(0), FrameUnits) * FrameUnits
  /\ markIn = NULL
  /\ currentSpeed = 0


\* the fields of the engine: every variable but the clock and the model's
\* record of callbacks and user events
engineFields ==
  <<gameState, sourceSegments, sequenceClips, conveyorOffset, markIn, markOut,
    currentSpeed, lastTime, startTime, isHoldingK, isHoldingJ, isHoldingL,
    inputTimestamps, inputStartOffsets, targetColor, gameMode, penaltyCount,
    characterMood, characterMoodTimer, isAudioInitialized, gainTarget>>

\* C15: pressing the extract key while markIn or markOut is null changes no
\* field of the engine and invokes no callback.
C15_ExtractNeedsBothMarks ==
  [][(keyDownPeriod /\ (markIn = NULL \/ markOut = NULL)) =>
       /\ callbacks' = <<>>
       /\ UNCHANGED engineFields]_vars

\* four user events into a run (start, L, I and the extract key among the
\* orders that give this state): the tape shuttles, only the in-mark is set
\* and nothing has been signalled
C15_Witness ==
  /\ events = 4
  /\ gameState = "PLAYING"
  /\ markIn # NULL
  /\ markOut = NULL
  /\ currentSpeed = 1 * SpeedDen
  /\ isHoldingL
  /\ ~isHoldingK
  /\ ~isHoldingJ
  /\ sequenceClips = <<>>
  /\ callbacks = <<>>


\* playhead tape position after one tick at the given speed (1/SpeedDen)
\* from the position a run starts at, in 1/Scale pixel
TickAwayAt(speed) ==
  Round(getTapeXAtPlayhead(0), FrameUnits) * FrameUnits
    + (speed * FRAME_PIXELS * TickMs * DtPerMs) \div SpeedDen

\* C16: in every state reached by J, K and L key-downs and key-ups in any
\* order, -MAX_SPEED <= currentSpeed <= MAX_SPEED.
C16_SpeedWithinMax ==
  /\ -MAX_SPEED * SpeedDen <= currentSpeed
  /\ currentSpeed <= MAX_SPEED * SpeedDen

\* J has just been pressed again after a tick of reverse shuttle at
\* -MAX_SPEED, and the speed is still -MAX_SPEED
C16_Witness ==
  /\ currentSpeed = -MAX_SPEED * SpeedDen
  /\ isHoldingJ
  /\ ~isHoldingK
  /\ now = TickMs
  /\ inputTimestamps["j"] = now
  /\ PlayheadX = TickAwayAt(-MAX_SPEED * SpeedDen)

Ladder == <<1, 2, 4, 8, 16, 32>>

\* C17: with K not held, an L key-down that takes L from not-held to held
\* sets currentSpeed to 0 if it was negative, to 1 if it was 0 and otherwise
\* to min(2 * currentSpeed, MAX_SPEED); from a stop the presses give the
\* ladder 1, 2, 4, 8, 16, 32 and then stay at 32.
C17_ShuttleLadderL ==
  [][(keyDownL /\ ~isHoldingK /\ ~isHoldingL) =>
       /\ currentSpeed < 0 => currentSpeed' = 0
       /\ currentSpeed = 0 => currentSpeed' = Ladder[1] * SpeedDen
       /\ currentSpeed > 0 =>
            /\ 2 * currentSpeed <= MAX_SPEED * SpeedDen =>
                 currentSpeed' = 2 * currentSpeed
            /\ 2 * currentSpeed > MAX_SPEED * SpeedDen =>
                 currentSpeed' = MAX_SPEED * SpeedDen
       /\ \A i \in 1..Len(Ladder) :
            currentSpeed = Ladder[i] * SpeedDen =>
              currentSpeed' = Ladder[Min(i + 1, Len(Ladder))] * SpeedDen]_vars

\* L has just been pressed again after a tick of shuttle at the top of the
\* ladder, and the speed is still 32
C17_Witness ==
  /\ currentSpeed = Ladder[Len(Ladder)] * SpeedDen
  /\ isHoldingL
  /\ ~isHoldingK
  /\ now = TickMs
  /\ inputTimestamps["l"] = now
  /\ PlayheadX = TickAwayAt(Ladder[Len(Ladder)] * SpeedDen)


\* start() is called in this step (App.startGame)
StartCalled == gameState # "PLAYING" /\ gameState' = "PLAYING"

\* C18: start() yields, from any state, null marks, speed 0, no penalties,
\* no clips, no key held, a fresh contiguous tape from position 0 and a
\* frame-aligned playhead; and the new run does not depend on what the
\* previous run left in the per-key timestamps and press offsets: a tap-step
\* is only taken for a key that was pressed in the run.
C18_StartIsFresh ==
  [][/\ StartCalled =>
          /\ markIn' = NULL
          /\ markOut' = NULL
          /\ currentSpeed' = 0
          /\ penaltyCount' = 0
          /\ sequenceClips' = <<>>
          /\ ~isHoldingK' /\ ~isHoldingJ' /\ ~isHoldingL'
          /\ OnFrameGrid'
          /\ sourceSegments'[1].x = 0
          /\ C2_TapeContiguous'
     /\ (keyUpL /\ penaltyCount' # penaltyCount) => inputTimestamps["l"] >= startTime
     /\ (keyUpJ /\ penaltyCount' # penaltyCount) => inputTimestamps["j"] >= startTime]_vars


\* 10000 - 10 * elapsedSeconds - 50 * penaltyCount, in hundredths of a point
RawScore100 == 1000000 - (now - startTime) - 5000 * penaltyCount

\* C19: the final score reported on a win is
\* max(0, floor(10000 - 10 * elapsedSeconds - 50 * penaltyCount)): never
\* negative, the floor of the raw score where that is not negative, and
\* non-increasing in the elapsed time and in penaltyCount.
C19_FinalScore ==
  /\ HasWin(callbacks) =>
       LET score == callbacks[2].val
       IN  /\ callbacks[2].cb = "onFinalScoreUpdate"
           /\ score >= 0
           /\ RawScore100 >= 0 =>
                (100 * score <= RawScore100 /\ RawScore100 < 100 * (score + 1))
           /\ RawScore100 < 0 => score = 0
  /\ \A t \in ScoreTimes, p \in ScorePenalties :
       (now - startTime <= t /\ penaltyCount <= p) =>
         calculateFinalScore(t, 0, p)
           <= calculateFinalScore(now, startTime, penaltyCount)

\* a win has just been scored 0 because time and penalties took the raw
\* score below 0
C19_Witness ==
  /\ gameState = "WON"
  /\ HasWin(callbacks)
  /\ callbacks[2].val = 0
  /\ RawScore100 < 0
  /\ penaltyCount > 0
  /\ now - startTime > 0


HasPenalty(cbs) == \E i \in 1..Len(cbs) : cbs[i].cb = "onPenaltyUpdate"

\* a tap-step: L or J is released with K held less than 200 ms after its
\* key-down
TapStep ==
  \/ keyUpL /\ QuickRelease("l")
  \/ keyUpJ /\ QuickRelease("j")

\* C20: within a run penaltyCount only changes by +1, only on a tap-step,
\* and each increment comes with exactly one penalty update carrying the new
\* count; no other step (marks, extractions, releases after 200 ms or more,
\* update ticks) changes it or emits a penalty update.
C20_PenaltyOnlyOnTapStep ==
  [][~StartCalled =>
       /\ penaltyCount' >= penaltyCount
       /\ penaltyCount' # penaltyCount =>
            /\ TapStep
            /\ penaltyCount' = penaltyCount + 1
            /\ callbacks' = <<Penalty(penaltyCount')>>
       /\ HasPenalty(callbacks') => penaltyCount' = penaltyCount + 1
       /\ (keyDownI \/ keyDownO \/ keyDownPeriod \/ render) =>
            penaltyCount' = penaltyCount]_vars

\* a second tap-step has just been counted, 200 ms or more into the run
C20_Witness ==
  /\ penaltyCount = 2
  /\ callbacks = <<Penalty(2)>>
  /\ gameState = "PLAYING"
  /\ isHoldingK
  /\ now >= TAP_MS


\* C21: snapToFrame is idempotent for every conveyorOffset, and after it the
\* playhead tape position is a multiple of FRAME_PIXELS within
\* FRAME_PIXELS / 2 of the position before.
C21_SnapIdempotent ==
  LET once == snapToFrame(conveyorOffset)
      twice == snapToFrame(once)
      before == (CANVAS_WIDTH \div 2) * Scale - conveyorOffset
      after == (CANVAS_WIDTH \div 2) * Scale - once
  IN  /\ twice = once
      /\ after % (FRAME_PIXELS * Scale) = 0
      /\ 2 * Abs(after - before) <= FRAME_PIXELS * Scale

\* the playhead is before the start of the tape, off the frame grid and in
\* the upper half of its frame, so that the snap moves it forward
C21_Witness ==
  /\ PlayheadX < 0
  /\ 2 * (PlayheadX % (FRAME_PIXELS * Scale)) > FRAME_PIXELS * Scale
  /\ snapToFrame(conveyorOffset) < conveyorOffset
  /\ currentSpeed # 0


\* C22: every tape produced by generateSourceTape has 200 segments, the first
\* at x = 0, each segment starts where its predecessor ends, no two adjacent
\* segments have the same colour, and every width is a multiple of
\* FRAME_PIXELS between SEGMENT_MIN_WIDTH and SEGMENT_MAX_WIDTH rounded to
\* the frame grid.
C22_GeneratedTapeShape ==
  gameState = "PLAYING" =>
    /\ Len(sourceSegments) = 200
    /\ sourceSegments[1].x = 0
    /\ \A i \in 1..(Len(sourceSegments) - 1) :
         /\ sourceSegments[i].x + sourceSegments[i].width = sourceSegments[i + 1].x
         /\ sourceSegments[i].color # sourceSegments[i + 1].color
    /\ \A i \in 1..Len(sourceSegments) :
         /\ sourceSegments[i].width % FRAME_PIXELS = 0
         /\ sourceSegments[i].width >= Round(SEGMENT_MIN_WIDTH, FRAME_PIXELS) * FRAME_PIXELS
         /\ sourceSegments[i].width <= Round(SEGMENT_MAX_WIDTH, FRAME_PIXELS) * FRAME_PIXELS

\* a generated tape that holds the narrowest and the widest segment, a width
\* rounded up from half a frame, and more than two colours
C22_Witness ==
  /\ gameState = "PLAYING"
  /\ Len(sourceSegments) = 200
  /\ \E i \in 1..Len(sourceSegments) : sourceSegments[i].width = 102
  /\ \E i \in 1..Len(sourceSegments) : sourceSegments[i].width = 300
  /\ \E i \in 1..Len(sourceSegments) : sourceSegments[i].width = 108
  /\ Cardinality({sourceSegments[i].color : i \in 1..Len(sourceSegments)}) > 2


\* the gain the audio feedback asks for with the playhead at tape position
\* tapeX (1/Scale pixel): silent when the tape stands still or no segment is
\* under the playhead
GainAt(tapeX) ==
  LET under == {i \in 1..Len(sourceSegments) :
                  /\ sourceSegments[i].x * Scale <= tapeX
                  /\ tapeX < (sourceSegments[i].x + sourceSegments[i].width) * Scale}
  IN  IF currentSpeed = 0 \/ under = {} THEN 0
      ELSE IF gameMode # "CAT_MODE" THEN 1
      ELSE IF \E i \in under : sourceSegments[i].color = targetColor THEN 3
      ELSE 0

\* a step that is one iteration of the render loop while the run is PLAYING
LoopIteration == gameState = "PLAYING" /\ now' # now

\* C24: in every loop iteration while the run is PLAYING the transport moves
\* conveyorOffset before the audio feedback is evaluated, so the gain is the
\* one of the segment under the playhead after the move; no input handler
\* runs inside the iteration: speed, hold flags, marks and the input records
\* are as the last handler left them.
C24_TransportBeforeAudio ==
  [][LoopIteration =>
       /\ conveyorOffset' = Transport(conveyorOffset, currentSpeed,
                                      (now' - lastTime) * DtPerMs)
       /\ isAudioInitialized => gainTarget' = GainAt(PlayheadX')
       /\ UNCHANGED <<currentSpeed, isHoldingK, isHoldingJ, isHoldingL, markIn,
                      markOut, inputTimestamps, inputStartOffsets, events>>]_vars

\* an iteration has just moved the playhead from a segment where the audio
\* is silent into one where it sounds, and the gain is that of the new segment
C24_Witness ==
  /\ gameState = "PLAYING"
  /\ isAudioInitialized
  /\ gameMode = "CAT_MODE"
  /\ currentSpeed # 0
  /\ lastTime = now
  /\ now > 0
  /\ gainTarget = 3
  /\ \E d \in {TickMs, TAP_MS} :
       GainAt(PlayheadX - (currentSpeed * FRAME_PIXELS * d * DtPerMs) \div SpeedDen) = 0


\* the extraction attempt of this step took the success path
Succeeded == ExtractAttempt /\ characterMood' = "happy"

ScoreUpdates(cbs) == {i \in 1..Len(cbs) : cbs[i].cb = "onScoreUpdate"}

\* C25: each successful extraction appends exactly one clip of width
\* markOut - markIn and colour targetColor at the end of sequenceClips,
\* leaves the earlier clips as they were and emits exactly one score update,
\* whose value is the sum of all clip widths; no step other than start()
\* shortens or reorders sequenceClips.
C25_SuccessAppendsOneClip ==
  [][/\ Succeeded =>
          /\ Len(sequenceClips') = Len(sequenceClips) + 1
          /\ SubSeq(sequenceClips', 1, Len(sequenceClips)) = sequenceClips
          /\ sequenceClips'[Len(sequenceClips')].width = markOut - markIn
          /\ sequenceClips'[Len(sequenceClips')].color = targetColor
          /\ Cardinality(ScoreUpdates(callbacks')) = 1
          /\ \A i \in ScoreUpdates(callbacks') :
               callbacks'[i].val = SumWidths(sequenceClips')
     /\ ~StartCalled =>
          /\ Len(sequenceClips') >= Len(sequenceClips)
          /\ SubSeq(sequenceClips', 1, Len(sequenceClips)) = sequenceClips]_vars

\* a second or later clip has just been appended after clips of another width
\* and the run goes on
C25_Witness ==
  /\ gameState = "PLAYING"
  /\ Len(sequenceClips) >= 2
  /\ sequenceClips[Len(sequenceClips)].width # sequenceClips[1].width
  /\ callbacks = <<Score(SumWidths(sequenceClips))>>
  /\ markIn = NULL


\* the step is the key-up of a held L or J, 200 ms or more after its key-down
LateRelease ==
  \/ /\ keyUpL
     /\ isHoldingL
     /\ inputTimestamps["l"] # UNDEF
     /\ now - inputTimestamps["l"] >= 200
  \/ /\ keyUpJ
     /\ isHoldingJ
     /\ inputTimestamps["j"] # UNDEF
     /\ now - inputTimestamps["j"] >= 200

\* C26 (as stated): an L or J key-up that arrives 200 ms or more after the
\* corresponding key-down snaps the playhead to the frame grid and leaves
\* penaltyCount unchanged.
C26_LateReleaseSnaps ==
  [][LateRelease => OnFrameGrid' /\ penaltyCount' = penaltyCount]_vars

\* C26 (amended): an L or J key-up with K held that arrives 200 ms or more
\* after the corresponding key-down stops the transport, snaps the playhead
\* to the nearest frame and leaves penaltyCount unchanged.
C26_LateReleaseWithKSnaps ==
  [][LateRelease /\ isHoldingK =>
       /\ OnFrameGrid'
       /\ 2 * Abs(PlayheadX' - PlayheadX) <= FRAME_PIXELS * Scale
       /\ currentSpeed' = 0
       /\ penaltyCount' = penaltyCount]_vars

\* a jog of 200 ms with K held has just been released: the playhead is back
\* on the grid, away from where the press found it, and nothing was counted
C26_Witness ==
  /\ isHoldingK
  /\ ~isHoldingL
  /\ inputTimestamps["l"] # UNDEF
  /\ now - inputTimestamps["l"] >= 200
  /\ lastTime = now
  /\ currentSpeed = 0
  /\ OnFrameGrid
  /\ conveyorOffset # inputStartOffsets["l"]
  /\ penaltyCount = 0


\* a K key-down that takes K from not-held to held stops the transport on
\* the frame grid and silences the audio
StopOnKDown ==
  (keyDownK /\ ~isHoldingK) =>
    /\ isHoldingK'
    /\ currentSpeed' = 0
    /\ OnFrameGrid'
    /\ 2 * Abs(PlayheadX' - PlayheadX) <= FRAME_PIXELS * Scale
    /\ gainTarget' = 0

\* C27 (as stated): a K key-down that takes K from not-held to held sets
\* currentSpeed to 0, snaps the playhead to the frame grid and sets the gain
\* target to 0, whatever the speed and the held keys were; while K is held an
\* L key-down sets currentSpeed to exactly +0.2 and a J key-down to exactly
\* -0.2, whatever the speed was.
C27_StopAndJog ==
  [][/\ StopOnKDown
     /\ (keyDownL /\ isHoldingK) => 5 * currentSpeed' = SpeedDen
     /\ (keyDownJ /\ isHoldingK) => 5 * currentSpeed' = -SpeedDen]_vars

\* C27 (amended): the same for K; while K is held an L key-down that takes L
\* from not-held to held sets currentSpeed to exactly +0.2 and a J key-down
\* that takes J from not-held to held to exactly -0.2, whatever the speed was.
C27_StopAndJogOnPress ==
  [][/\ StopOnKDown
     /\ (keyDownL /\ isHoldingK /\ ~isHoldingL) => 5 * currentSpeed' = SpeedDen
     /\ (keyDownJ /\ isHoldingK /\ ~isHoldingJ) => 5 * currentSpeed' = -SpeedDen]_vars

\* with K held and a reverse jog under way, off the grid, L has just been
\* pressed and the speed is +0.2
C27_Witness ==
  /\ isHoldingK
  /\ isHoldingJ
  /\ isHoldingL
  /\ inputTimestamps["l"] = now
  /\ inputTimestamps["j"] < now
  /\ ~OnFrameGrid
  /\ 5 * currentSpeed = SpeedDen


\* the playhead position rounded to the nearest frame, in pixels
SnappedPlayhead == Round(PlayheadX, FRAME_PIXELS * Scale) * FRAME_PIXELS

\* C28: an O key-down sets markOut to the frame-snapped playhead position if
\* markIn is null or that position is strictly greater than markIn;
\* otherwise it is rejected and markOut keeps its value, null or the earlier
\* mark; markIn is unchanged in both cases.
C28_MarkOutAcceptance ==
  [][keyDownO =>
       /\ (markIn = NULL \/ SnappedPlayhead > markIn) => markOut' = SnappedPlayhead
       /\ (markIn # NULL /\ SnappedPlayhead <= markIn) => markOut' = markOut
       /\ markIn' = markIn]_vars

\* O has been pressed after markIn was set, with the tape moving and the
\* playhead between two frames: markOut is the nearest frame, beyond markIn
C28_Witness ==
  /\ gameState = "PLAYING"
  /\ markIn # NULL
  /\ markOut = SnappedPlayhead
  /\ markOut > markIn
  /\ ~OnFrameGrid
  /\ currentSpeed # 0
  /\ lastTime = now

\* the speed a press of J (of L) gives from speed v, K being as it is now
AfterPressJ(v) == IF isHoldingK THEN -1 ELSE ShuttleJ(v)
AfterPressL(v) == IF isHoldingK THEN 1 ELSE ShuttleL(v)

\* the release of key, with dir = 1 for L and -1 for J: with K held the speed
\* is 0 and a tap steps one frame in direction dir from the grid position of
\* the press and is counted; without K nothing changes
ReleaseLaw(key, dir) ==
  IF isHoldingK
  THEN /\ currentSpeed' = 0
       /\ IF QuickRelease(key)
          THEN /\ dir * (PlayheadX' - StepTarget(key, 0)) = FRAME_PIXELS * Scale
               /\ penaltyCount' = penaltyCount + 1
          ELSE penaltyCount' = penaltyCount
  ELSE /\ currentSpeed' = currentSpeed
       /\ penaltyCount' = penaltyCount

\* C29: J is the mirror image of L.  A press of L from speed v gives the
\* negation of what a press of J gives from -v, and the other way round; a
\* release of J and a release of L follow the same law with the direction
\* reversed: the same hold flag cleared, the same penaltyCount, and a tap-step
\* of exactly one frame in the opposite direction.
C29_JMirrorsL ==
  [][/\ (keyDownL /\ ~isHoldingL) =>
          /\ isHoldingL' /\ isHoldingJ' = isHoldingJ
          /\ currentSpeed' = -AfterPressJ(-currentSpeed)
          /\ penaltyCount' = penaltyCount
     /\ (keyDownJ /\ ~isHoldingJ) =>
          /\ isHoldingJ' /\ isHoldingL' = isHoldingL
          /\ currentSpeed' = -AfterPressL(-currentSpeed)
          /\ penaltyCount' = penaltyCount
     /\ keyUpL => ~isHoldingL' /\ isHoldingJ' = isHoldingJ /\ ReleaseLaw("l", 1)
     /\ keyUpJ => ~isHoldingJ' /\ isHoldingL' = isHoldingL /\ ReleaseLaw("j", -1)]_vars

\* J has just been pressed on a forward shuttle of speed 2 or more, with L
\* still held: the speed is 0, as for an L press on a reverse shuttle
C29_Witness ==
  /\ isHoldingJ
  /\ isHoldingL
  /\ ~isHoldingK
  /\ currentSpeed = 0
  /\ inputTimestamps["j"] = now
  /\ inputTimestamps["l"] < now
  /\ ~OnFrameGrid


\* C30: update changes conveyorOffset by exactly
\* -currentSpeed * FRAME_PIXELS * dt, with dt = (timestamp - lastTime) / 16.666,
\* and changes no other transport, mark, tape, clip or penalty field; with
\* currentSpeed = 0 it leaves conveyorOffset unchanged, so a playhead stopped
\* on the frame grid stays on it.
C30_UpdateMovesOnlyOffset ==
  [][LoopIteration =>
       /\ SpeedDen * (conveyorOffset' - conveyorOffset) =
            -currentSpeed * FRAME_PIXELS * (now' - lastTime) * DtPerMs
       /\ currentSpeed = 0 => conveyorOffset' = conveyorOffset
       /\ (currentSpeed = 0 /\ OnFrameGrid) => OnFrameGrid'
       /\ UNCHANGED <<currentSpeed, isHoldingK, isHoldingJ, isHoldingL, markIn,
                      markOut, sourceSegments, sequenceClips, penaltyCount>>]_vars

\* the ticks have moved the tape for 200 ms at a speed of 2 or more since
\* markIn was set, and the mark is where it was
C30_Witness ==
  /\ gameState = "PLAYING"
  /\ lastTime = now
  /\ now = MaxTicks * TickMs
  /\ Abs(currentSpeed) >= 2 * SpeedDen
  /\ markIn # NULL
  /\ Abs(PlayheadX - markIn * Scale) >=
       2 * FRAME_PIXELS * TAP_MS * DtPerMs


\* C31: markIn and markOut, when set, and the x and width of every source
\* segment are multiples of FRAME_PIXELS, whatever sub-frame position the
\* playhead had when the marks were set and after any ripple-delete.
C31_MarksAndTapeOnGrid ==
  /\ markIn # NULL => markIn % FRAME_PIXELS = 0
  /\ markOut # NULL => markOut % FRAME_PIXELS = 0
  /\ \A i \in 1..Len(sourceSegments) :
       /\ sourceSegments[i].x % FRAME_PIXELS = 0
       /\ sourceSegments[i].width % FRAME_PIXELS = 0

\* a ripple-delete has cut a segment in two at marks that were set with the
\* tape moving, and markIn has been set again since
C31_Witness ==
  /\ gameState = "PLAYING"
  /\ Len(sequenceClips) = 1
  /\ \E i \in 1..(Len(sourceSegments) - 1) :
       /\ sourceSegments[i].color = sourceSegments[i + 1].color
       /\ sourceSegments[i].width < SEGMENT_MIN_WIDTH
       /\ sourceSegments[i + 1].width < SEGMENT_MIN_WIDTH
  /\ markIn # NULL


\* the mood the speed alone gives: dizzy above 4, focused while moving, idle
\* while stopped
SpeedMood ==
  IF Abs(currentSpeed) > 4 * SpeedDen THEN "dizzy"
  ELSE IF currentSpeed # 0 THEN "focused"
  ELSE "idle"

\* C32: a penalty forces the mood worried, a successful extraction happy and
\* a failed extraction worried, each with a positive timer; while the timer
\* is positive an update tick does not replace the mood, and on the tick
\* where the timer elapses the mood becomes the speed-derived default.
C32_MoodDecay ==
  [][/\ TapStep => characterMood' = "worried" /\ characterMoodTimer' > 0
     /\ (ExtractAttempt /\ Accepted) =>
          characterMood' = "happy" /\ characterMoodTimer' > 0
     /\ (ExtractAttempt /\ Rejected) =>
          characterMood' = "worried" /\ characterMoodTimer' > 0
     /\ (LoopIteration /\ characterMoodTimer > 0 /\ characterMoodTimer' > 0) =>
          characterMood' = characterMood
     /\ (LoopIteration /\ characterMoodTimer > 0 /\ characterMoodTimer' <= 0) =>
          characterMood' = SpeedMood]_vars


\* the step is a key-down of J, K or L that finds the key recorded as held
RepeatedKeyDown ==
  \/ keyDownK /\ isHoldingK
  \/ keyDownL /\ isHoldingL
  \/ keyDownJ /\ isHoldingJ

\* C33: a key-down of J, K or L received while the engine records that key
\* as held changes no engine state: the speed is not doubled again, the
\* press timestamp and press offset are not refreshed and no snap occurs.
C33_RepeatChangesNothing ==
  [][RepeatedKeyDown =>
       UNCHANGED <<sourceSegments, sequenceClips, conveyorOffset, markIn, markOut,
                   currentSpeed, lastTime, startTime, isHoldingK, isHoldingJ,
                   isHoldingL, inputTimestamps, inputStartOffsets, targetColor,
                   gameMode, penaltyCount, characterMood, characterMoodTimer,
                   isAudioInitialized, gainTarget>>]_vars

\* L has been held through the ticks of a shuttle at speed 1, where its
\* repeated key-downs arrive: the press record is still that of the press
\* and the playhead is between two frames
C33_Witness ==
  /\ isHoldingL
  /\ ~isHoldingK
  /\ currentSpeed = SpeedDen
  /\ inputTimestamps["l"] = 0
  /\ inputStartOffsets["l"] = snapToFrame(0)
  /\ now = MaxTicks * TickMs
  /\ ~OnFrameGrid
  /\ events >= 4


\* C34: an L or J key-up while K is not held changes only the hold flag of
\* that key: currentSpeed, conveyorOffset and penaltyCount are as before, so
\* a shuttle, or a jog from which K was released first, keeps running, and a
\* quick tap without K is neither stepped nor penalised.
C34_ReleaseWithoutK ==
  [][/\ (keyUpL /\ ~isHoldingK) =>
          /\ ~isHoldingL'
          /\ UNCHANGED <<sourceSegments, sequenceClips, conveyorOffset, markIn,
                         markOut, currentSpeed, lastTime, startTime, isHoldingK,
                         isHoldingJ, inputTimestamps, inputStartOffsets,
                         targetColor, gameMode, penaltyCount, characterMood,
                         characterMoodTimer, isAudioInitialized, gainTarget>>
     /\ (keyUpJ /\ ~isHoldingK) =>
          /\ ~isHoldingJ'
          /\ UNCHANGED <<sourceSegments, sequenceClips, conveyorOffset, markIn,
                         markOut, currentSpeed, lastTime, startTime, isHoldingK,
                         isHoldingL, inputTimestamps, inputStartOffsets,
                         targetColor, gameMode, penaltyCount, characterMood,
                         characterMoodTimer, isAudioInitialized, gainTarget>>]_vars

\* L was pressed with K held after a tick and K and then L were released
\* at once: the jog goes on at 0.2 and nothing was stepped or counted
C34_Witness ==
  /\ ~isHoldingK
  /\ ~isHoldingL
  /\ ~isHoldingJ
  /\ 5 * currentSpeed = SpeedDen
  /\ inputTimestamps["l"] = TickMs
  /\ now = TickMs
  /\ penaltyCount = 0


\* C35: the magnitude of a nonzero currentSpeed is the jog speed 0.2 or one
\* of the ladder values 1, 2, 4, 8, 16, 32, for any order of K, J and L
\* presses and releases.
C35_SpeedOnLadder ==
  \/ currentSpeed = 0
  \/ 5 * Abs(currentSpeed) = SpeedDen
  \/ \E i \in 1..Len(Ladder) : Abs(currentSpeed) = Ladder[i] * SpeedDen


\* C36: an I or O key-down modifies only markIn and markOut: conveyorOffset,
\* currentSpeed, the hold flags, sourceSegments, sequenceClips and
\* penaltyCount are unchanged, so marking while shuttling neither stops nor
\* moves the playhead.
C36_MarksOnlyTouchMarks ==
  [][(keyDownI \/ keyDownO) =>
       UNCHANGED <<conveyorOffset, currentSpeed, isHoldingK, isHoldingJ,
                   isHoldingL, sourceSegments, sequenceClips, penaltyCount,
                   lastTime, startTime, inputTimestamps, inputStartOffsets,
                   characterMood, characterMoodTimer, gainTarget, gameState>>]_vars

\* I has been pressed during a reverse shuttle with the playhead between two
\* frames: the mark is on the nearest frame, the tape still moves and the
\* playhead is where the tick left it
C36_Witness ==
  /\ gameState = "PLAYING"
  /\ markIn = SnappedPlayhead
  /\ ~OnFrameGrid
  /\ currentSpeed < 0
  /\ isHoldingJ
  /\ lastTime = now
  /\ now > 0


\* C37: the winning extraction performs no ripple-delete: sourceSegments,
\* markIn, markOut, conveyorOffset and currentSpeed are as they were when the
\* extract key was pressed; one clip is appended to sequenceClips, and of the
\* other fields only the mood and the audio gain target may differ.
C37_WinLeavesTape ==
  [][(keyDownPeriod /\ HasWin(callbacks')) =>
       /\ UNCHANGED <<sourceSegments, markIn, markOut, conveyorOffset, currentSpeed,
                      penaltyCount, isHoldingK, isHoldingJ, isHoldingL,
                      inputTimestamps, inputStartOffsets, lastTime, startTime>>
       /\ Len(sequenceClips') = Len(sequenceClips) + 1
       /\ SubSeq(sequenceClips', 1, Len(sequenceClips)) = sequenceClips]_vars

\* the run has just been won and the tape still holds the target-coloured
\* segment inside the marks, which are still set
C37_Witness ==
  /\ gameState = "WON"
  /\ HasWin(callbacks)
  /\ markIn # NULL
  /\ markOut # NULL
  /\ sequenceClips[Len(sequenceClips)].width = markOut - markIn
  /\ \E i \in 1..Len(sourceSegments) :
       /\ sourceSegments[i].color = targetColor
       /\ sourceSegments[i].x >= markIn
       /\ sourceSegments[i].x + sourceSegments[i].width <= markOut


\* C38: while the run is in progress the sum of the widths of sequenceClips
\* is strictly less than WIN_PIXELS and equals the value of the most recent
\* score update: every step that changes the sum emits a score update, and
\* every score update carries the sum as the step leaves it.
C38_ScoreTracksClips ==
  [][/\ gameState' = "PLAYING" => SumWidths(sequenceClips') < WIN_PIXELS
     /\ SumWidths(sequenceClips') # SumWidths(sequenceClips) =>
          ScoreUpdates(callbacks') # {}
     /\ \A i \in ScoreUpdates(callbacks') :
          callbacks'[i].val = SumWidths(sequenceClips')]_vars

\* an extraction has just been accepted on top of earlier clips, the run goes
\* on and one more segment could win it
C38_Witness ==
  /\ gameState = "PLAYING"
  /\ Len(sequenceClips) >= 2
  /\ ScoreUpdates(callbacks) # {}
  /\ SumWidths(sequenceClips) < WIN_PIXELS
  /\ SumWidths(sequenceClips) + SEGMENT_MAX_WIDTH >= WIN_PIXELS


\* C39: the ids of the segments of sourceSegments are pairwise distinct in
\* every reachable state, also after an extraction whose range lies strictly
\* inside one segment and leaves a remainder of it on either side.
C39_SegmentIdsDistinct ==
  \A i, j \in 1..Len(sourceSegments) :
    i # j => sourceSegments[i].id # sourceSegments[j].id

====
